---- MODULE Spec2Model ----
(***************************************************************************)
(* Model of src/app.py: a Streamlit page that forwards five widget values  *)
(* to one ollama client.generate call and renders the result.              *)
(*                                                                         *)
(* The widget host re-executes the whole script on every interaction; one  *)
(* such execution (an "interaction cycle") is one step of the model.       *)
(*                                                                         *)
(* Text is a sequence of string tokens, so that an f-string is a           *)
(* concatenation and "contains" is something to compute.  The emoji that   *)
(* prefix the literals of the source are left out of the tokens.  Slider   *)
(* values are counted in tenths (0.7 is 7).                                *)
(***************************************************************************)
EXTENDS Integers, Sequences, FiniteSets, TLC

VARIABLES
    ollama_host,     \* value held by the "Ollama Host" text input
    selected_model,  \* value held by the "Select Model" select box
    temperature,     \* value held by the "Temperature" slider, in tenths
    top_p,           \* value held by the "Top P" slider, in tenths
    user_query,      \* value held by the prompt text area
    submit_button,   \* what st.button returned in the last cycle
    view,            \* elements rendered by the last cycle, in order
    clients,         \* hosts of the ollama.Client objects built in the last cycle
    requests,        \* requests sent to the inference service in the last cycle
    outcome,         \* what the service did with the last cycle's request, if any
    uncaught,        \* the exception that escaped the last cycle, if any
    snap             \* one remembered submission (history, SpecDet only)

vars == <<ollama_host, selected_model, temperature, top_p, user_query,
          submit_button, view, clients, requests, outcome, uncaught, snap>>

----------------------------------------------------------------------------
(* Bounds of the model *)

MaxHosts == 2
MaxPromptLen == 1
MaxCount == 1
MaxMsgs == 2

(* Program constants (sliders, in tenths) *)

SliderMin == 0
SliderMax == 10
SliderStep == 1
DefaultTemperature == 7
DefaultTopP == 9

----------------------------------------------------------------------------
(* Python values *)

None == <<>>
Some(v) == <<v>>

\* Truth value of a str in a condition: the empty string is false, every
\* other string (whitespace included) is true.
TruthyStripped(s) == \E i \in 1..Len(s) : s[i] # " "
Truthy(s) == Len(s) > 0

\* dict.get(key): the value, or None when the key is absent.
GetOrZero(response, key) == IF key \in DOMAIN response THEN Some(response[key]) ELSE Some(0)
Get(response, key) == IF key \in DOMAIN response THEN Some(response[key]) ELSE None

\* Exceptions: a class and the message it was raised with.
Exc(cls, msg) == [cls |-> cls, msg |-> msg]

\* The classes an exception of class cls is an instance of.
Mro(cls) ==
    CASE cls = "ConnectionError"        -> {"ConnectionError", "OSError", "Exception", "BaseException"}
      [] cls = "ConnectionRefusedError" -> {"ConnectionRefusedError", "ConnectionError", "OSError",
                                            "Exception", "BaseException"}
      [] cls = "ResponseError"          -> {"ResponseError", "Exception", "BaseException"}
      [] cls = "ReadTimeout"            -> {"ReadTimeout", "TimeoutException", "TransportError",
                                            "Exception", "BaseException"}
      [] cls = "ValidationError"        -> {"ValidationError", "ValueError", "Exception", "BaseException"}
      [] cls = "KeyError"               -> {"KeyError", "LookupError", "Exception", "BaseException"}

IsInstance(e, cls) == cls \in Mro(e.cls)

\* str(e): the message; a KeyError shows the repr of its key.
Str(e) == IF e.cls = "KeyError" THEN <<"'">> \o e.msg \o <<"'">> ELSE e.msg

----------------------------------------------------------------------------
(* Rendered elements *)

Info(t)      == [kind |-> "info", body |-> t]
Success(t)   == [kind |-> "success", body |-> t]
Subheader(t) == [kind |-> "subheader", body |-> t]
Write(t)     == [kind |-> "write", body |-> t]
Error(t)     == [kind |-> "error", body |-> t]
Warning(t)   == [kind |-> "warning", body |-> t]
Metric(l, v) == [kind |-> "metric", label |-> l, value |-> v]
Json(obj)    == [kind |-> "json", obj |-> obj]

----------------------------------------------------------------------------
(* Sidebar controls *)

available_models == <<"llama2", "mistral", "neural-chat", "dolphin-mixtral">>

MetaFields == {"total_duration", "load_duration", "prompt_eval_count", "eval_count"}

\* The widget values read at the top of one execution of the script.
Widgets(h, m, t, p, q) ==
    [ollama_host |-> h, selected_model |-> m, temperature |-> t, top_p |-> p, user_query |-> q]

----------------------------------------------------------------------------
(* Literals of the page *)

ConnectingText == <<"Connecting to Ollama and generating response...">>
SuccessText    == <<"Response generated successfully!">>
ResponseHeader == <<"Response:">>
ConnectHint    == <<"Make sure Ollama is running and accessible at the specified host">>
GenericHint    == <<"Please check your input and try again">>
WarningText    == <<"Please enter a query before submitting">>

\* f"Could not connect to Ollama at {ollama_host}"
ConnectionErrorLineDefault(host) == <<"Could not connect to Ollama at ", "http://localhost:11434">>
ConnectionErrorLine(host) == <<"Could not connect to Ollama at ">> \o host

\* f"Error: {str(e)}"
GenericErrorLineClass(e) == <<"Error: ", e.cls>>
GenericErrorLine(e) == <<"Error: ">> \o Str(e)

\* Elements rendered before and after the query branch in every cycle.
Header ==
    << [kind |-> "title", body |-> <<"Ollama LLM Query Application">>],
       [kind |-> "markdown", body |-> <<"Query local Ollama models using Streamlit">>],
       Subheader(<<"Query Input">>) >>
Footer ==
    << [kind |-> "divider", body |-> <<>>],
       [kind |-> "markdown", body |-> <<"How to use this app">>] >>

----------------------------------------------------------------------------
(* The request *)

\* options={"temperature": temperature, "top_p": top_p}
OptionsDefault(t, p) == [temperature |-> DefaultTemperature, top_p |-> DefaultTopP]
Options(t, p) == [temperature |-> t, top_p |-> p]

\* ollama.Client(host=ollama_host): a client bound to that host.
Client(host) == [host |-> host]

\* client.generate(model=..., prompt=..., stream=False, options=...): the
\* request that reaches the service.
GenerateRequest(client, w) ==
    [host    |-> client.host,
     model   |-> w.selected_model,
     prompt  |-> w.user_query,
     stream  |-> FALSE,
     options |-> Options(w.temperature, w.top_p)]

\* The requests one call of client.generate sends, given what the service
\* does with it: the call is made once and is not repeated.
CallRetrying(req, o) == IF o.kind = "raise" THEN <<req, req>> ELSE <<req>>
Call(req, o) == <<req>>

----------------------------------------------------------------------------
(* The query branch *)

\* The expander: three metrics and the JSON panel of the four optional fields.
Metadata(w, response) ==
    << Metric("Model", w.selected_model),
       Metric("Temperature", w.temperature),
       Metric("Top P", w.top_p),
       Json([k \in MetaFields |-> Get(response, k)]) >>

\* The body of the try block, up to its end or to the statement that raises.
\* o is what the service does with the request: it returns a response
\* (kind "return") or the call raises (kind "raise").  The spinner is gone
\* once its block is left and is not part of the view.
TryBody(w, o) ==
    LET v0     == <<Info(ConnectingText)>>
        client == Client(w.ollama_host)
        sent   == Call(GenerateRequest(client, w), o)
    IN  IF o.kind = "raise"
        THEN [view |-> v0, clients |-> <<client>>, requests |-> sent, exc |-> Some(o.exc)]
        ELSE LET response == o.response
                 v1 == v0 \o <<Success(SuccessText), Subheader(ResponseHeader)>>
             IN  IF "response" \notin DOMAIN response
                 THEN [view |-> v1, clients |-> <<client>>, requests |-> sent,
                       exc |-> Some(Exc("KeyError", <<"response">>))]
                 ELSE [view |-> v1 \o <<Write(response["response"])>> \o Metadata(w, response),
                       clients |-> <<client>>, requests |-> sent, exc |-> None]

\* The except clauses, tried in order on the exception the try body raised.
Handlers(r, w) ==
    IF r.exc = None
    THEN [view |-> r.view, uncaught |-> None]
    ELSE LET e == r.exc[1]
         IN  IF IsInstance(e, "ConnectionError")
             THEN [view |-> r.view \o <<Error(ConnectionErrorLine(w.ollama_host)), Info(ConnectHint)>>,
                   uncaught |-> None]
             ELSE IF IsInstance(e, "Exception")
             THEN [view |-> r.view \o <<Error(GenericErrorLine(e)), Info(GenericHint)>>,
                   uncaught |-> None]
             ELSE [view |-> r.view, uncaught |-> r.exc]

\* if submit_button and user_query
ShouldQueryAnyRun(b, q) == Truthy(q)
ShouldQueryOnPress(b, q) == b
ShouldQuery(b, q) == b /\ Truthy(q)

\* elif submit_button and not user_query
ShouldWarn(b, q) == b /\ ~Truthy(q)

\* One execution of the script with the button value b, the widget values w
\* and the service's behaviour o.
ScriptKeepingHistory(b, w, o) ==
    LET kept == SelectSeq(view, LAMBDA e : e.kind = "write")
    IN  IF ShouldQuery(b, w.user_query)
        THEN LET r == TryBody(w, o)
                 h == Handlers(r, w)
             IN  [view     |-> Header \o kept \o h.view \o Footer,
                  clients  |-> r.clients,
                  requests |-> r.requests,
                  uncaught |-> h.uncaught]
        ELSE IF ShouldWarn(b, w.user_query)
        THEN [view |-> Header \o <<Warning(WarningText)>> \o Footer,
              clients |-> <<>>, requests |-> <<>>, uncaught |-> None]
        ELSE [view |-> Header \o Footer, clients |-> <<>>, requests |-> <<>>, uncaught |-> None]
Script(b, w, o) ==
    IF ShouldQuery(b, w.user_query)
    THEN LET r == TryBody(w, o)
             h == Handlers(r, w)
         IN  [view     |-> Header \o h.view \o (IF h.uncaught = None THEN Footer ELSE <<>>),
              clients  |-> r.clients,
              requests |-> r.requests,
              uncaught |-> h.uncaught]
    ELSE IF ShouldWarn(b, w.user_query)
    THEN [view |-> Header \o <<Warning(WarningText)>> \o Footer,
          clients |-> <<>>, requests |-> <<>>, uncaught |-> None]
    ELSE [view |-> Header \o Footer, clients |-> <<>>, requests |-> <<>>, uncaught |-> None]

----------------------------------------------------------------------------
(* What the user can enter and what the service can do *)

Host(i) == IF i = 1 THEN <<"http://localhost:11434">>
                    ELSE <<"http://host", ToString(i), ":11434">>
Hosts == {Host(i) : i \in 1..MaxHosts}

Models == {available_models[i] : i \in DOMAIN available_models}

\* Positions of a slider with min_value 0.0, max_value 1.0, step 0.1.
SliderValues == {v \in SliderMin..SliderMax : (v - SliderMin) % SliderStep = 0}

PromptChars == {" ", "a"}
Prompts == UNION {[1..n -> PromptChars] : n \in 0..MaxPromptLen}

\* Smaller input sets, for the specifications whose service is the large part.
HostsFew   == {Host(1), Host(2)}
ModelsFew  == {available_models[1], available_models[2]}
SlidersFew == {SliderMin}
PromptsFew == {<<>>, <<"a">>}

ReplyTexts == {<<"Hello world">>}

\* Responses: any subset of the optional fields among F, each a number,
\* with or without the text field.
ResponsesOver(F) ==
    UNION { UNION { { [k \in P \cup T |-> IF k = "response" THEN t ELSE m[k]] :
                      t \in ReplyTexts, m \in [P -> 0..MaxCount] } :
                    T \in {{}, {"response"}} } :
            P \in SUBSET F }

ErrMsg(i) == <<"service said ", ToString(i)>>
RaisedClasses == {"ConnectionError", "ConnectionRefusedError", "ResponseError",
                  "ReadTimeout", "ValidationError"}
Exceptions == {Exc(c, ErrMsg(i)) : c \in RaisedClasses, i \in 1..MaxMsgs}

Returns(r) == [kind |-> "return", response |-> r]
Raises(e)  == [kind |-> "raise", exc |-> e]
NotAsked   == [kind |-> "none"]

OutcomesOver(F) == {Returns(r) : r \in ResponsesOver(F)} \cup {Raises(e) : e \in Exceptions}

\* The service acts only in a cycle that calls it.
ServiceChoices(b, q, O) == IF ShouldQuery(b, q) THEN O ELSE {NotAsked}

----------------------------------------------------------------------------
(* Interaction cycles *)

\* The end of a cycle whose execution of the script gave r: the widgets
\* hold (h, m, t, p, q), the button returned b, the service did o if called.
Rendered(h, m, t, p, q, b, o, r) ==
    /\ ollama_host' = h
    /\ selected_model' = m
    /\ temperature' = t
    /\ top_p' = p
    /\ user_query' = q
    /\ submit_button' = b
    /\ view' = r.view
    /\ clients' = r.clients
    /\ requests' = r.requests
    /\ uncaught' = r.uncaught
    /\ outcome' = IF r.requests = <<>> THEN None ELSE Some(o)

\* One re-execution of the script, from its first line to its last.
Cycle(h, m, t, p, q, b, o) ==
    \E r \in {Script(b, Widgets(h, m, t, p, q), o)} :
        Rendered(h, m, t, p, q, b, o, r)

Init ==
    LET r == Script(FALSE,
                    Widgets(ollama_host, available_models[1], DefaultTemperature, DefaultTopP, <<>>),
                    NotAsked)
    IN  /\ ollama_host \in Hosts
        /\ selected_model = available_models[1]
        /\ temperature = DefaultTemperature
        /\ top_p = DefaultTopP
        /\ user_query = <<>>
        /\ submit_button = FALSE
        /\ view = r.view
        /\ clients = r.clients
        /\ requests = r.requests
        /\ uncaught = r.uncaught
        /\ outcome = None
        /\ snap = None

SetHost(h, O) ==
    /\ h # ollama_host
    /\ \E o \in ServiceChoices(FALSE, user_query, O) :
          Cycle(h, selected_model, temperature, top_p, user_query, FALSE, o)
    /\ UNCHANGED snap

SelectModel(m, O) ==
    /\ m # selected_model
    /\ \E o \in ServiceChoices(FALSE, user_query, O) :
          Cycle(ollama_host, m, temperature, top_p, user_query, FALSE, o)
    /\ UNCHANGED snap

SetTemperature(t, O) ==
    /\ t # temperature
    /\ \E o \in ServiceChoices(FALSE, user_query, O) :
          Cycle(ollama_host, selected_model, t, top_p, user_query, FALSE, o)
    /\ UNCHANGED snap

SetTopP(p, O) ==
    /\ p # top_p
    /\ \E o \in ServiceChoices(FALSE, user_query, O) :
          Cycle(ollama_host, selected_model, temperature, p, user_query, FALSE, o)
    /\ UNCHANGED snap

EditPrompt(q, O) ==
    /\ q # user_query
    /\ \E o \in ServiceChoices(FALSE, q, O) :
          Cycle(ollama_host, selected_model, temperature, top_p, q, FALSE, o)
    /\ UNCHANGED snap

\* A press of the submit button; the service is free in what it does.
Submit(O) ==
    /\ \E o \in ServiceChoices(TRUE, user_query, O) :
          Cycle(ollama_host, selected_model, temperature, top_p, user_query, TRUE, o)
    /\ UNCHANGED snap

\* A press of the submit button against a deterministic service: a request
\* equal to the remembered one gets the remembered outcome.  Any one
\* submission may be the remembered one.
SubmitDet(O) ==
    \E o \in ServiceChoices(TRUE, user_query, O), mark \in BOOLEAN :
        \E w \in {Widgets(ollama_host, selected_model, temperature, top_p, user_query)} :
            \E r \in {Script(TRUE, w, o)} :
                /\ (snap # None /\ r.requests # <<>> /\ r.requests = snap[1].requests)
                       => o = snap[1].outcome
                /\ Rendered(ollama_host, selected_model, temperature, top_p, user_query, TRUE, o, r)
                /\ snap' = IF mark /\ snap = None
                           THEN Some([w |-> w, outcome |-> o, requests |-> r.requests,
                                      view |-> r.view])
                           ELSE snap

WidgetChange(H, M, S, Q, O) ==
    \/ \E h \in H : SetHost(h, O)
    \/ \E m \in M : SelectModel(m, O)
    \/ \E t \in S : SetTemperature(t, O)
    \/ \E p \in S : SetTopP(p, O)
    \/ \E q \in Q : EditPrompt(q, O)

\* Every widget value, a service that answers with the text and one optional field.
Outcomes == OutcomesOver({"eval_count"})
Next ==
    \/ WidgetChange(Hosts, Models, SliderValues, Prompts, Outcomes)
    \/ Submit(Outcomes)
Spec == Init /\ [][Next]_vars

\* A few widget values, a service that answers with any of the optional fields.
OutcomesMeta == OutcomesOver(MetaFields)
NextMeta ==
    \/ WidgetChange(HostsFew, ModelsFew, SlidersFew, PromptsFew, OutcomesMeta)
    \/ Submit(OutcomesMeta)
SpecMeta == Init /\ [][NextMeta]_vars

\* A few widget values, a deterministic service.
OutcomesDet == OutcomesOver({})
NextDet ==
    \/ WidgetChange(HostsFew, ModelsFew, SlidersFew, PromptsFew, OutcomesDet)
    \/ SubmitDet(OutcomesDet)
SpecDet == Init /\ [][NextDet]_vars

----------------------------------------------------------------------------
(* Reading a rendered view *)

Kinds(v, k) == {i \in DOMAIN v : v[i].kind = k}
Has(v, k, t) == \E i \in Kinds(v, k) : v[i].body = t
Contains(t, sub) == \E i \in 0..(Len(t) - Len(sub)) : SubSeq(t, i + 1, i + Len(sub)) = sub

IsConnectLine(t) == Len(t) >= 1 /\ t[1] = "Could not connect to Ollama at "
IsGenericLine(t) == Len(t) >= 1 /\ t[1] = "Error: "

InSuccess(v)          == Kinds(v, "success") # {}
InConnectionFailed(v) == \E i \in Kinds(v, "error") : IsConnectLine(v[i].body)
InOtherFailure(v)     == \E i \in Kinds(v, "error") : IsGenericLine(v[i].body)
InEmptyPromptWarning(v) == Kinds(v, "warning") # {}

TerminalStates(v) ==
    {s \in {"Success", "ConnectionFailed", "OtherFailure", "EmptyPromptWarning"} :
        \/ s = "Success" /\ InSuccess(v)
        \/ s = "ConnectionFailed" /\ InConnectionFailed(v)
        \/ s = "OtherFailure" /\ InOtherFailure(v)
        \/ s = "EmptyPromptWarning" /\ InEmptyPromptWarning(v)}

\* What the service did in the last cycle.
ConnectionClasses == {"ConnectionError", "ConnectionRefusedError"}
Raised      == outcome # None /\ outcome[1].kind = "raise"
Unreachable == Raised /\ outcome[1].exc.cls \in ConnectionClasses
OtherError  == Raised /\ outcome[1].exc.cls \notin ConnectionClasses
Answered    == outcome # None /\ outcome[1].kind = "return"
AnsweredWithText == Answered /\ "response" \in DOMAIN outcome[1].response

Submitting == submit_button /\ user_query # <<>>
WhitespaceOnly(q) == q # <<>> /\ \A i \in DOMAIN q : q[i] = " "

----------------------------------------------------------------------------
(* Claims *)

\* C1: a cycle in which the button is pressed with the empty prompt builds no
\* client, sends no request, renders the warning and renders neither the
\* success banner nor an error line, whatever the other widgets hold.
C1_EmptySubmitWarns ==
    (submit_button /\ user_query = <<>>) =>
        /\ clients = <<>>
        /\ requests = <<>>
        /\ outcome = None
        /\ Has(view, "warning", WarningText)
        /\ TerminalStates(view) = {"EmptyPromptWarning"}
        /\ Kinds(view, "error") = {}

C1_Witness ==
    /\ submit_button /\ user_query = <<>>
    /\ ollama_host = Host(2) /\ selected_model = available_models[4]
    /\ temperature = SliderMin /\ top_p = SliderMax
    /\ InEmptyPromptWarning(view)

\* C2: a submitting cycle whose request meets an unreachable service ends in
\* ConnectionFailed and not in OtherFailure: the error line holds the host
\* of the host control and the connection hint follows.
C2_UnreachableNamesHost ==
    (Submitting /\ Unreachable) =>
        /\ TerminalStates(view) = {"ConnectionFailed"}
        /\ \A i \in Kinds(view, "error") :
              IsConnectLine(view[i].body) /\ Contains(view[i].body, ollama_host)
        /\ Has(view, "info", ConnectHint)
        /\ ~Has(view, "info", GenericHint)

C2_Witness ==
    /\ Submitting /\ Unreachable
    /\ ollama_host = Host(2)
    /\ outcome[1].exc.cls = "ConnectionRefusedError"
    /\ InConnectionFailed(view)

\* C3: a submitting cycle whose request fails with an error that is not a
\* connection failure ends in OtherFailure: the error line holds the
\* error's message, the generic hint follows, and no connection line is
\* rendered.
C3_OtherErrorShowsMessage ==
    (Submitting /\ OtherError) =>
        /\ TerminalStates(view) = {"OtherFailure"}
        /\ \A i \in Kinds(view, "error") :
              IsGenericLine(view[i].body) /\ Contains(view[i].body, outcome[1].exc.msg)
        /\ Has(view, "info", GenericHint)
        /\ ~Has(view, "info", ConnectHint)

C3_Witness ==
    /\ Submitting /\ OtherError
    /\ outcome[1].exc = Exc("ReadTimeout", ErrMsg(2))
    /\ InOtherFailure(view)

\* C4: a submitting cycle sends one request, to the host of the host
\* control, with the selected model, the prompt and the two slider values
\* as they are held now, streaming off.
C4_RequestCarriesWidgets ==
    Submitting =>
        /\ clients = <<[host |-> ollama_host]>>
        /\ requests = << [host    |-> ollama_host,
                          model   |-> selected_model,
                          prompt  |-> user_query,
                          stream  |-> FALSE,
                          options |-> [temperature |-> temperature, top_p |-> top_p]] >>

C4_Witness ==
    /\ Submitting
    /\ ollama_host = Host(2) /\ selected_model = available_models[3]
    /\ temperature = 3 /\ top_p = SliderMin
    /\ Len(requests) = 1

\* C5: after a response with a text field the written text is that text,
\* and the JSON panel has all four optional fields, each with the
\* response's value when present (0 included) and None when absent.
C5_MetadataPanel ==
    (Submitting /\ AnsweredWithText) =>
        LET response == outcome[1].response
        IN  /\ \E i \in Kinds(view, "write") : Kinds(view, "write") = {i}
            /\ \A i \in Kinds(view, "write") : view[i].body = response["response"]
            /\ \E i \in Kinds(view, "json") : Kinds(view, "json") = {i}
            /\ \A i \in Kinds(view, "json") :
                  /\ DOMAIN view[i].obj = MetaFields
                  /\ \A k \in MetaFields :
                        /\ k \in DOMAIN response => view[i].obj[k] = <<response[k]>>
                        /\ k \notin DOMAIN response =>
                              view[i].obj[k] = None /\ view[i].obj[k] # <<0>>

C5_Witness ==
    /\ Submitting /\ AnsweredWithText
    /\ DOMAIN outcome[1].response = {"response", "total_duration", "eval_count"}
    /\ outcome[1].response["total_duration"] = 0
    /\ outcome[1].response["eval_count"] = MaxCount
    /\ Kinds(view, "json") # {}

\* C6: every cycle in which the button is pressed ends in exactly one of
\* the four terminal states: never the success banner with an error line,
\* never two error lines, no exception uncaught.
C6_ExactlyOneTerminalState ==
    submit_button =>
        /\ Cardinality(TerminalStates(view)) = 1
        /\ ~(InSuccess(view) /\ Kinds(view, "error") # {})
        /\ Cardinality(Kinds(view, "error")) <= 1
        /\ uncaught = None

\* C7: a cycle sends at most one request; when the request fails, that one
\* request is the only one and one error line is rendered.
C7_NoRetry ==
    /\ Len(requests) <= 1
    /\ Raised => Len(requests) = 1 /\ Cardinality(Kinds(view, "error")) = 1

C7_Witness ==
    /\ Raised
    /\ outcome[1].exc.cls = "ResponseError"
    /\ Len(requests) = 1

\* C8: a cycle not triggered by the button sends no request and renders no
\* response text, metadata, success banner, error line or warning.
C8_OnlySubmitQueries ==
    ~submit_button =>
        /\ clients = <<>>
        /\ requests = <<>>
        /\ \A k \in {"write", "json", "metric", "success", "error", "warning", "info"} :
              Kinds(view, k) = {}

C8_Witness ==
    /\ ~submit_button
    /\ user_query # <<>>
    /\ temperature # DefaultTemperature
    /\ requests = <<>>

C10_WhitespaceIsNonEmpty ==
    /\ (submit_button /\ WhitespaceOnly(user_query)) =>
          /\ Len(requests) = 1
          /\ requests[1].prompt = user_query
          /\ ~InEmptyPromptWarning(view)
    /\ InEmptyPromptWarning(view) => Len(user_query) = 0

C10_Witness ==
    /\ submit_button /\ WhitespaceOnly(user_query)
    /\ Len(requests) = 1

====
